---- MODULE Spec2Model ----
(***************************************************************************)
(* Model of monitor.py: a polling change detector.  One invocation of      *)
(* main() fetches the ranking page (with retries), parses the /book/<id>   *)
(* anchors, diffs the ids against the persisted state file, optionally     *)
(* sends a Telegram notification and rewrites the state file.              *)
(*                                                                         *)
(* Strings are modelled as sequences of one-character strings, book ids    *)
(* as sequences of digits, the markup as the sequence of its <a href>      *)
(* elements, and the state file by the shape of its content.               *)
(***************************************************************************)
EXTENDS Integers, Sequences, FiniteSets, TLC

VARIABLES stateFile, served, run, hist

vars == <<stateFile, served, run, hist>>

----------------------------------------------------------------------------
(* Bounds of the model and constants of the program *)

\* longest markup, in anchors, that the source serves in the model
MaxAnchors == 3

\* fetch_html_with_retries(url, retries=4, ...)
retries == 4

\* parse_titles: return items[:50]
MaxItems == 50

\* main: current_ids[:5]
SampleSize == 5

\* processes that may run main(); Spec schedules the invocations one after
\* the other, as the external scheduler is trusted to do
Procs == {1, 2}
SeqProcs == {1}

----------------------------------------------------------------------------
(* Generic helpers *)

Range(s) == {s[i] : i \in 1..Len(s)}

Min(a, b) == IF a < b THEN a ELSE b

SeqsUpTo(S, n) == UNION {[1..k -> S] : k \in 0..n}

\* Python's `sub in s` for two strings
IsSubstring(sub, s) ==
    \E i \in 0..(Len(s) - Len(sub)) : SubSeq(s, i + 1, i + Len(sub)) = sub

----------------------------------------------------------------------------
(* Strings: str.strip, str.lower, format(p, "02d") *)

Whitespace == {" "}

LowerOf ==
    [c \in {"A", "B", "C", "D", "E", "I", "L", "R",
            "a", "b", "c", "d", "e", "i", "l", "r", " ", "x"} |->
        CASE c = "A" -> "a" [] c = "B" -> "b" [] c = "C" -> "c"
          [] c = "D" -> "d" [] c = "E" -> "e" [] c = "I" -> "i"
          [] c = "L" -> "l" [] c = "R" -> "r"
          [] OTHER -> c]

lower(s) == [i \in 1..Len(s) |-> IF s[i] \in DOMAIN LowerOf THEN LowerOf[s[i]] ELSE s[i]]

RECURSIVE lstrip(_)
lstrip(s) == IF s # <<>> /\ Head(s) \in Whitespace THEN lstrip(Tail(s)) ELSE s

RECURSIVE rstrip(_)
rstrip(s) ==
    IF s # <<>> /\ s[Len(s)] \in Whitespace THEN rstrip(SubSeq(s, 1, Len(s) - 1)) ELSE s

strip(s) == rstrip(lstrip(s))

RECURSIVE DecimalDigits(_)
DecimalDigits(n) ==
    IF n < 10 THEN <<n>> ELSE Append(DecimalDigits(n \div 10), n % 10)

\* f"{p:02d}": decimal digits, zero-padded on the left to width 2
Format02d(p) == IF p < 10 THEN <<0, p>> ELSE DecimalDigits(p)

----------------------------------------------------------------------------
(* The source page: anchors, markup, HTTP responses *)

Id10 == <<1, 0>>
Id20 == <<2, 0>>
Id30 == <<3, 0>>
Id40 == <<4, 0>>

\* an <a href=...> element: href "/<path>/<num>" and its text
Anchor(path, num, text) == [path |-> path, num |-> num, text |-> text]

AnchorPool ==
    { Anchor("book", Id10, <<"A", "a">>),
      Anchor("book", Id20, <<" ", "B", "b", " ">>),
      Anchor("book", Id30, <<"C", "c">>),
      Anchor("book", Id40, <<"D", "d">>),
      Anchor("book", Id10, <<"R", "e", "a", "d">>) }

\* r.text: the empty string, or markup with the given anchors
EmptyBody == [kind |-> "empty", anchors |-> <<>>]
Page(as) == [kind |-> "page", anchors |-> as]

Pages == {Page(as) : as \in SeqsUpTo(AnchorPool, MaxAnchors)}

\* a richer pool of anchors: links that are no ranking entries (blocklisted
\* labels in any case, one-character and blank texts), hrefs that do not
\* match /book/<digits>, and a second link to a book under another text
ParseAnchorPool ==
    { Anchor("book", Id10, <<"A", "a">>),
      Anchor("book", Id20, <<" ", "B", "b", " ">>),
      Anchor("book", Id10, <<"R", "e", "a", "d">>),
      Anchor("book", Id30, <<"A", "d", "d", " ", "I", "n", " ",
                             "L", "i", "b", "r", "a", "r", "y">>),
      Anchor("book", Id30, <<" ", "C", " ">>),
      Anchor("book", Id30, <<" ", " ">>),
      Anchor("tag", Id40, <<"D", "d">>),
      Anchor("book", <<>>, <<"E", "e">>),
      Anchor("book", Id20, <<"C", "c">>) }

\* longest page over the richer pool
MaxParseAnchors == 2

DigitChar == <<"1", "2", "3", "4", "5", "6", "7", "8", "9">>

\* the text of a number: its decimal digits as characters
NumberText(n) ==
    LET ds == DecimalDigits(n)
    IN  [i \in 1..Len(ds) |-> IF ds[i] = 0 THEN "0" ELSE DigitChar[ds[i]]]

\* a ranking page with n entries: book k is linked as /book/<k>, titled "B<k>"
RankingPage(n) ==
    Page([k \in 1..n |-> Anchor("book", DecimalDigits(k), <<"B">> \o NumberText(k))])

\* the pages of RichSpec: every short page over the richer pool, and ranking
\* pages longer than the sample of 5 and than the limit of 50 entries
RichPages ==
    {Page(as) : as \in SeqsUpTo(ParseAnchorPool, MaxParseAnchors)}
    \cup {RankingPage(SampleSize + 1), RankingPage(MaxItems + 10)}

\* a body without any anchor, such as an error or challenge page
ErrBody == Page(<<>>)

\* no markup held (before fetch_html_with_retries has returned)
NoHtml == [kind |-> "none", anchors |-> <<>>]

\* `served` is either a page the source serves unchanged for the whole
\* behaviour, or Varying: the source may serve any page at any attempt
Varying == [kind |-> "varying", anchors |-> <<>>]

\* longest page of the histories of runs
MaxHistAnchors == 2

\* or VaryingShort: the source may serve any page of up to MaxHistAnchors
\* anchors at any attempt
VaryingShort == [kind |-> "varying_short", anchors |-> <<>>]

\* the pages the source may serve at an attempt
ServedPages(srv) ==
    IF srv = Varying THEN Pages
    ELSE IF srv = VaryingShort
         THEN {Page(as) : as \in SeqsUpTo(AnchorPool, MaxHistAnchors)}
    ELSE {srv}

FetchStatuses == {200, 204, 304, 403, 404, 429, 500, 503}

\* outcome of s.get(url, timeout=40): a transport-level exception, or a
\* response with a status code and a body
Response(exc, status, text) == [exc |-> exc, status_code |-> status, text |-> text]

TransportError == Response(TRUE, 0, EmptyBody)

GetOutcomes(srv) ==
    {TransportError}
    \cup {Response(FALSE, 200, t) :
            t \in ServedPages(srv) \cup {EmptyBody}}
    \cup {Response(FALSE, 204, EmptyBody)}
    \cup {Response(FALSE, st, t) :
            st \in FetchStatuses \ {200, 204}, t \in {EmptyBody, ErrBody}}

\* requests.Response.raise_for_status raises HTTPError for 4xx and 5xx only
RaisesForStatus(r) == 400 <= r.status_code /\ r.status_code < 600

\* one iteration of the retry loop on response r: "return" when r.text is
\* returned, else the exception that sends the loop to its except block
AttemptOutcome(r) ==
    IF r.exc THEN "transport"
    ELSE IF 200 <= r.status_code /\ r.status_code < 300 /\ r.text.kind = "page"
         THEN "return"
    ELSE IF r.status_code \in {403, 429} \/ r.status_code >= 500 THEN "bad_status"
    ELSE IF RaisesForStatus(r) THEN "http_error"
    ELSE "return"

\* `for attempt in range(1, retries + 1)`: after `attempt` iterations the loop
\* runs another one
MoreAttempts_OffByOne(attempt) == attempt <= retries

MoreAttempts(attempt) == attempt < retries

----------------------------------------------------------------------------
(* parse_titles *)

Blocklist ==
    { <<"r", "e", "a", "d">>,
      <<"a", "d", "d", " ", "i", "n", " ", "l", "i", "b", "r", "a", "r", "y">> }

\* re.search(r"/book/(\d+)", href) finds a match
HrefMatches(a) == a.path = "book" /\ Len(a.num) >= 1

\* the title filter: `not title or len(title) < 2 or title.lower() in {...}`
TitleRejected(title) ==
    title = <<>> \/ Len(title) < 2 \/ lower(title) \in Blocklist

Entry(id, title) == [id |-> id, title |-> title]

\* the loop over the anchors, from anchor k on.  The test on Len(nextItems),
\* which always holds, only makes TLC evaluate each iteration in turn.
RECURSIVE ParseLoop(_, _, _, _)
ParseLoop(as, k, items, seen) ==
    IF k > Len(as) THEN items
    ELSE LET a == as[k]
             title == strip(a.text)
             skipped == \/ ~HrefMatches(a)
                        \/ TitleRejected(title)
                        \/ a.num \in seen
             nextItems == IF skipped THEN items ELSE Append(items, Entry(a.num, title))
             nextSeen == IF skipped THEN seen ELSE seen \cup {a.num}
         IN  IF Len(nextItems) <= k
             THEN ParseLoop(as, k + 1, nextItems, nextSeen)
             ELSE nextItems

parse_titles_NoLimit(html) == ParseLoop(html.anchors, 1, <<>>, {})

parse_titles(html) ==
    LET items == ParseLoop(html.anchors, 1, <<>>, {})
    IN  SubSeq(items, 1, Min(MaxItems, Len(items)))

IdsOf(entries) == [k \in 1..Len(entries) |-> entries[k].id]

----------------------------------------------------------------------------
(* The state file and the values json.loads(...).get("ids", []) can give *)

\* a Python value: a list of ids, a str, a dict (its keys), a number or
\* bool ("num"), or None ("null")
PyList(l) == [t |-> "list", list |-> l, str |-> <<>>]
PyStr(s) == [t |-> "str", list |-> <<>>, str |-> s]
PyDict(keys) == [t |-> "dict", list |-> keys, str |-> <<>>]
PyNum == [t |-> "num", list |-> <<>>, str |-> <<>>]
PyNone == [t |-> "null", list |-> <<>>, str |-> <<>>]

\* kind: "absent" (no file), "unreadable" (read_text raises), "notjson"
\* (json.loads raises), "json"; top: the type of the top-level JSON value;
\* hasIds/ids: the "ids" member of a top-level object
File(kind, top, hasIds, ids, snapshot) ==
    [kind |-> kind, top |-> top, hasIds |-> hasIds, ids |-> ids, snapshot |-> snapshot]

FileAbsent == File("absent", "none", FALSE, PyList(<<>>), <<>>)
FileUnreadable == File("unreadable", "none", FALSE, PyList(<<>>), <<>>)
FileNotJson == File("notjson", "none", FALSE, PyList(<<>>), <<>>)
FileJsonArray == File("json", "array", FALSE, PyList(<<>>), <<>>)
FileJsonScalar == File("json", "scalar", FALSE, PyList(<<>>), <<>>)
FileNoIds == File("json", "object", FALSE, PyList(<<>>), <<>>)
FileWithIds(v) == File("json", "object", TRUE, v, <<>>)

\* contents the state file may have before the first modelled invocation
InitFiles ==
    { FileAbsent, FileUnreadable, FileNotJson, FileJsonArray, FileJsonScalar,
      FileNoIds,
      FileWithIds(PyNum), FileWithIds(PyNone),
      FileWithIds(PyStr(<<1, 0, 2, 0>>)),
      FileWithIds(PyDict(<<Id10, Id30>>)),
      FileWithIds(PyList(<<>>)),
      FileWithIds(PyList(<<Id10, Id20, Id30>>)) }

\* STATE_FILE.exists()
Exists(f) == f.kind # "absent"

\* load_seen_ids: the value returned for file content f
load_seen_ids(f) ==
    IF Exists(f)
    THEN IF f.kind \in {"unreadable", "notjson"} THEN PyList(<<>>)   \* read/parse raises
         ELSE IF f.top # "object" THEN PyList(<<>>)                  \* no .get: AttributeError
         ELSE IF f.hasIds THEN f.ids ELSE PyList(<<>>)               \* .get("ids", [])
    ELSE PyList(<<>>)

\* save_seen_ids: the file content written
save_seen_ids_KeepOld(ids, snapshot) ==
    LET old == load_seen_ids(stateFile)
        kept == IF old.t = "list"
                THEN SelectSeq(old.list, LAMBDA i : i \notin Range(ids)) ELSE <<>>
    IN  File("json", "object", TRUE, PyList(ids \o kept), snapshot)

save_seen_ids(ids, snapshot) == File("json", "object", TRUE, PyList(ids), snapshot)

----------------------------------------------------------------------------
(* The diff: new_ids = [i for i in current_ids if i not in seen_ids] *)

\* `i in seen` raises TypeError when seen is not a container
InRaises(seen) == seen.t \in {"num", "null"}

\* `i in seen` for a list, a dict (keys) and a str (substring)
PyIn(i, seen) ==
    CASE seen.t \in {"list", "dict"} -> \E k \in 1..Len(seen.list) : seen.list[k] = i
      [] seen.t = "str" -> IsSubstring(i, seen.str)
      [] OTHER -> FALSE

RECURSIVE Diff_Inverted(_, _)
Diff_Inverted(current_ids, seen) ==
    IF current_ids = <<>> THEN <<>>
    ELSE IF ~PyIn(Head(current_ids), seen) THEN Diff_Inverted(Tail(current_ids), seen)
    ELSE <<Head(current_ids)>> \o Diff_Inverted(Tail(current_ids), seen)

RECURSIVE Diff(_, _)
Diff(current_ids, seen) ==
    IF current_ids = <<>> THEN <<>>
    ELSE IF PyIn(Head(current_ids), seen) THEN Diff(Tail(current_ids), seen)
    ELSE <<Head(current_ids)>> \o Diff(Tail(current_ids), seen)

----------------------------------------------------------------------------
(* The notification message *)

\* next(t for (bid, t) in current if bid == i)
TitleOf(current, i) ==
    current[CHOOSE k \in 1..Len(current) :
                /\ current[k].id = i
                /\ \A j \in 1..(k - 1) : current[j].id # i].title

\* pos = {i: idx + 1 for idx, (i, _) in enumerate(current)}: the last index wins
PosOf(current, i) ==
    CHOOSE k \in 1..Len(current) :
        /\ current[k].id = i
        /\ \A j \in (k + 1)..Len(current) : current[j].id # i

\* one line f"#{p:02d} - {title}"
Line(current, i) == [num |-> Format02d(PosOf(current, i)), title |-> TitleOf(current, i)]

Listed(current_ids, new_ids) ==
    IF new_ids # <<>> THEN new_ids
    ELSE SubSeq(current_ids, 1, Min(SampleSize, Len(current_ids)))

BuildMessage_RankAmongNew(current, new_ids, always_alert) ==
    LET shown == Listed(IdsOf(current), new_ids)
    IN  [intro |-> IF always_alert /\ new_ids = <<>> THEN "test" ELSE "new",
         lines |-> [k \in 1..Len(shown) |->
                       [num |-> Format02d(k), title |-> TitleOf(current, shown[k])]]]

BuildMessage_SampleOnOverride(current, new_ids, always_alert) ==
    LET ids == IdsOf(current)
        shown == IF always_alert \/ new_ids = <<>>
                 THEN SubSeq(ids, 1, Min(SampleSize, Len(ids)))
                 ELSE new_ids
    IN  [intro |-> IF always_alert THEN "test" ELSE "new",
         lines |-> [k \in 1..Len(shown) |-> Line(current, shown[k])]]

BuildMessage(current, new_ids, always_alert) ==
    LET shown == Listed(IdsOf(current), new_ids)
    IN  [intro |-> IF always_alert /\ new_ids = <<>> THEN "test" ELSE "new",
         lines |-> [k \in 1..Len(shown) |-> Line(current, shown[k])]]

NoMessage == [intro |-> "none", lines |-> <<>>]

----------------------------------------------------------------------------
(* send_telegram *)

\* os.getenv gives None for a variable that is not set
EnvUnset == "<unset>"

\* values the environment variables may hold; a process reads each of them
\* once, so the model draws the value where the code calls os.getenv
AlwaysAlertValues == {EnvUnset, "1", "0"}
TokenValues == {EnvUnset, "", "tok"}
ChatIdValues == {EnvUnset, "42"}

\* `not token or not chat_id` is false
CredentialsSet(token, chat_id) ==
    /\ token \notin {EnvUnset, ""}
    /\ chat_id \notin {EnvUnset, ""}

\* outcomes of requests.post(api, data=data, timeout=30)
PostOutcomes ==
    {TransportError} \cup {Response(FALSE, st, EmptyBody) : st \in {200, 304, 400, 500}}

\* what one call of send_telegram does, given the credentials read and the
\* outcome post of requests.post: posts is the number of HTTP requests made,
\* raised tells whether an exception leaves the function, delivery what happened
SendOutcome(token, chat_id, post) ==
    IF ~CredentialsSet(token, chat_id)
    THEN [posts |-> 0, raised |-> FALSE, delivery |-> "skipped"]
    ELSE IF post.exc
    THEN [posts |-> 1, raised |-> TRUE, delivery |-> "transport_error"]
    ELSE IF RaisesForStatus(post)
    THEN [posts |-> 1, raised |-> FALSE, delivery |-> "error_logged"]
    ELSE [posts |-> 1, raised |-> FALSE, delivery |-> "accepted"]

----------------------------------------------------------------------------
(* main: the branch taken after the diff *)

\* os.getenv("ALWAYS_ALERT_ON_RUN") == "1"
AlwaysAlert(value) == value = "1"

\* first_run = not STATE_FILE.exists(), evaluated after load_seen_ids returned
FirstRun_NothingLoaded(f, seen_ids) == seen_ids = PyList(<<>>)

FirstRun(f, seen_ids) == ~Exists(f)

MainBranch_NoSuppression(first_run, new_ids, always_alert) ==
    IF new_ids # <<>> \/ always_alert THEN "send" ELSE "save"

MainBranch_IgnoresOverride(first_run, new_ids, always_alert) ==
    IF first_run /\ ~always_alert THEN "first_save"
    ELSE IF new_ids # <<>> THEN "send"
    ELSE "save"

MainBranch(first_run, new_ids, always_alert) ==
    IF first_run /\ ~always_alert THEN "first_save"
    ELSE IF new_ids # <<>> \/ always_alert THEN "send"
    ELSE "save"

----------------------------------------------------------------------------
(* State of one invocation of main() *)

NoResponse == Response(FALSE, 0, NoHtml)

IdleRun ==
    [pc |-> "idle",
     attempt |-> 0,            \* loop variable of the retry loop
     warnings |-> 0,           \* "[warn] fetch attempt ..." lines printed
     r |-> NoResponse,         \* the response whose text is returned
     html |-> NoHtml,          \* the markup, from the return of the fetch to its parse
     fetchedServed |-> FALSE,  \* the markup fetched is the pinned page
     current |-> <<>>,
     seen_ids |-> PyList(<<>>),
     first_run |-> FALSE,
     new_ids |-> <<>>,
     always_alert |-> FALSE,
     msg |-> NoMessage,
     sendCalls |-> 0,          \* calls of send_telegram
     posts |-> 0,              \* HTTP requests made to the notification sink
     delivery |-> "none",
     saves |-> 0,              \* calls of save_seen_ids
     exit |-> "none",
     startFile |-> FileAbsent, \* the state file when the invocation started
     prevSame |-> FALSE,       \* the invocation before fetched the pinned page
     raced |-> FALSE]          \* loaded the state file while another invocation
                               \* was between its load and its save, or the reverse

----------------------------------------------------------------------------
(* History of the invocations: what earlier runs persisted and notified.
   The program keeps none of it; it is recorded to state properties of
   sequences of runs.  The id histories are kept for the ids in hist.tracked. *)

NoHistory ==
    [tracked |-> {},     \* the ids whose history is kept
     dropped |-> {},      \* ids persisted by an earlier run and no longer persisted
     notified |-> {},     \* ids put in a message since they last entered the fetches
     renotified |-> {},   \* ids put in a message again while they stayed in the fetches
     override |-> FALSE,  \* some run has read ALWAYS_ALERT as set
     writer |-> 0]        \* the invocation that wrote the state file last

\* the ids a state file holds
PersistedIds(f) ==
    IF Exists(f) /\ f.kind = "json" /\ f.top = "object" /\ f.hasIds
       /\ f.ids.t \in {"list", "dict"}
    THEN Range(f.ids.list) ELSE {}

\* a run went past fetch and parse with current_ids and put `listed` in a
\* message.  The notified ids are recorded as long as no run has read the
\* override as set.
HistDecide(h, current_ids, listed, always_alert) ==
    IF h.tracked = {} THEN h
    ELSE IF h.override \/ always_alert
         THEN [h EXCEPT !.notified = {}, !.renotified = {}, !.override = TRUE]
    ELSE [h EXCEPT !.notified = (@ \cap Range(current_ids)) \cup (listed \cap h.tracked),
                   !.renotified = @ \cup (listed \cap h.notified)]

\* invocation p replaced the state file `old` by one holding ids
HistSave(h, p, old, ids) ==
    [h EXCEPT !.writer = p,
              !.dropped = ((@ \cup PersistedIds(old)) \ Range(ids)) \cap h.tracked]

Terminated(p) == run[p].pc \in {"done", "fatal", "crashed"}

Init ==
    /\ stateFile \in InitFiles
    /\ served = Varying
    /\ run = [p \in Procs |-> IdleRun]
    /\ hist = NoHistory

\* the scheduler starts main()
StartRun(p) ==
    /\ run[p].pc = "idle" \/ Terminated(p)
    /\ run' = [run EXCEPT ![p] =
                  [IdleRun EXCEPT !.pc = "fetch", !.startFile = stateFile,
                                  !.prevSame = run[p].fetchedServed]]
    /\ UNCHANGED <<stateFile, served, hist>>

\* one iteration of the loop of fetch_html_with_retries
FetchAttempt(p) ==
    /\ run[p].pc = "fetch"
    /\ MoreAttempts(run[p].attempt)
    /\ \E resp \in GetOutcomes(served) :
          LET attempt == run[p].attempt + 1
              outcome == AttemptOutcome(resp)
          IN  run' = [run EXCEPT ![p] =
                 IF outcome = "return"
                 THEN [@ EXCEPT !.attempt = attempt, !.r = resp, !.html = resp.text,
                                !.fetchedServed = (served.kind = "page" /\ resp.text = served),
                                !.pc = "fetched"]
                 ELSE [@ EXCEPT !.attempt = attempt, !.warnings = @ + 1,
                                !.pc = IF MoreAttempts(attempt) THEN "fetch" ELSE "fatal",
                                !.exit = IF MoreAttempts(attempt) THEN "none"
                                         ELSE "fetch_exhausted"]]
    /\ UNCHANGED <<stateFile, served, hist>>

\* current = parse_titles(html); if not current: raise SystemExit.  The frame
\* of fetch_html_with_retries (attempt, r) is gone and html is not read again.
ParseTitles_PersistsEmpty(p) ==
    /\ run[p].pc = "fetched"
    /\ LET current == parse_titles(run[p].html)
           left == [run[p] EXCEPT !.attempt = 0, !.r = NoResponse, !.html = NoHtml]
       IN  /\ run' = [run EXCEPT ![p] =
                 IF current = <<>>
                 THEN [left EXCEPT !.pc = "fatal", !.exit = "empty_parse"]
                 ELSE [left EXCEPT !.current = current, !.pc = "parsed"]]
           /\ stateFile' = IF current = <<>> THEN save_seen_ids(<<>>, <<>>) ELSE stateFile
    /\ UNCHANGED <<served, hist>>

ParseTitles(p) ==
    /\ run[p].pc = "fetched"
    /\ LET current == parse_titles(run[p].html)
           left == [run[p] EXCEPT !.attempt = 0, !.r = NoResponse, !.html = NoHtml]
       IN  run' = [run EXCEPT ![p] =
              IF current = <<>>
              THEN [left EXCEPT !.pc = "fatal", !.exit = "empty_parse"]
              ELSE [left EXCEPT !.current = current, !.pc = "parsed"]]
    /\ UNCHANGED <<stateFile, served, hist>>

\* the invocation has loaded the state file and not yet written it
InFlight(q) == run[q].pc \in {"loaded", "first_save", "send", "save"}

\* seen_ids = load_seen_ids()
LoadSeenIds(p) ==
    /\ run[p].pc = "parsed"
    /\ LET others == {q \in Procs \ {p} : InFlight(q)}
       IN  run' = [q \in Procs |->
              IF q = p
              THEN [run[p] EXCEPT !.seen_ids = load_seen_ids(stateFile),
                                  !.pc = "loaded", !.raced = (others # {})]
              ELSE IF q \in others THEN [run[q] EXCEPT !.raced = TRUE]
              ELSE run[q]]
    /\ UNCHANGED <<stateFile, served, hist>>

\* first_run, new_ids, always_alert, the branch and the message
DiffAndDecide(p) ==
    /\ run[p].pc = "loaded"
    /\ \E value \in AlwaysAlertValues :
       LET first_run == FirstRun(stateFile, run[p].seen_ids)
           current_ids == IdsOf(run[p].current)
           new_ids == Diff(current_ids, run[p].seen_ids)
           always_alert == AlwaysAlert(value)
           branch == MainBranch(first_run, new_ids, always_alert)
           listed == IF branch = "send" THEN Range(Listed(current_ids, new_ids)) ELSE {}
       IN  IF InRaises(run[p].seen_ids)
           THEN /\ run' = [run EXCEPT ![p] =
                              [@ EXCEPT !.first_run = first_run, !.pc = "crashed",
                                        !.exit = "type_error"]]
                /\ hist' = HistDecide(hist, current_ids, {}, FALSE)
           ELSE /\ run' = [run EXCEPT ![p] =
                              [@ EXCEPT !.first_run = first_run, !.new_ids = new_ids,
                                        !.always_alert = always_alert,
                                        !.msg = IF branch = "send"
                                                THEN BuildMessage(run[p].current, new_ids,
                                                                  always_alert)
                                                ELSE NoMessage,
                                        !.pc = branch]]
                /\ hist' = HistDecide(hist, current_ids, listed, always_alert)
    /\ UNCHANGED <<stateFile, served>>

\* save_seen_ids(current_ids, current); print; return
FirstRunSave(p) ==
    /\ run[p].pc = "first_save"
    /\ stateFile' = save_seen_ids(IdsOf(run[p].current), run[p].current)
    /\ run' = [run EXCEPT ![p] = [@ EXCEPT !.saves = @ + 1, !.pc = "done", !.exit = "ok"]]
    /\ hist' = HistSave(hist, p, stateFile, IdsOf(run[p].current))
    /\ UNCHANGED served

\* send_telegram(msg)
SendTelegram(p) ==
    /\ run[p].pc = "send"
    /\ \E token \in TokenValues, chat_id \in ChatIdValues, post \in PostOutcomes :
          LET out == SendOutcome(token, chat_id, post)
          IN  run' = [run EXCEPT ![p] =
                 [@ EXCEPT !.sendCalls = @ + 1, !.posts = @ + out.posts,
                           !.delivery = out.delivery,
                           !.pc = IF out.raised THEN "crashed" ELSE "save",
                           !.exit = IF out.raised THEN "send_raised" ELSE "none"]]
    /\ UNCHANGED <<stateFile, served, hist>>

\* the final save_seen_ids(current_ids, current)
SaveSeenIds(p) ==
    /\ run[p].pc = "save"
    /\ stateFile' = save_seen_ids(IdsOf(run[p].current), run[p].current)
    /\ run' = [run EXCEPT ![p] = [@ EXCEPT !.saves = @ + 1, !.pc = "done", !.exit = "ok"]]
    /\ hist' = HistSave(hist, p, stateFile, IdsOf(run[p].current))
    /\ UNCHANGED served

Step(p) ==
    \/ StartRun(p)
    \/ FetchAttempt(p)
    \/ ParseTitles(p)
    \/ LoadSeenIds(p)
    \/ DiffAndDecide(p)
    \/ FirstRunSave(p)
    \/ SendTelegram(p)
    \/ SaveSeenIds(p)

\* invocations one after the other
Next == \E p \in SeqProcs : Step(p)

Spec == Init /\ [][Next]_vars

\* the source serves one page, the same at every attempt of every invocation
InitRerun ==
    /\ stateFile \in InitFiles
    /\ served \in Pages
    /\ run = [p \in Procs |-> IdleRun]
    /\ hist = NoHistory

RerunSpec == InitRerun /\ [][Next]_vars

\* the source serves one page of RichPages; no state file before the first run
InitRich ==
    /\ stateFile = FileAbsent
    /\ served \in RichPages
    /\ run = [p \in Procs |-> IdleRun]
    /\ hist = NoHistory

RichSpec == InitRich /\ [][Next]_vars

\* invocations one after the other on short pages, with the history of an id
\* kept
InitHist ==
    /\ stateFile \in InitFiles
    /\ served = VaryingShort
    /\ run = [p \in Procs |-> IdleRun]
    /\ hist \in {[NoHistory EXCEPT !.tracked = {x}] : x \in {Id10, Id20}}

HistSpec == InitHist /\ [][Next]_vars

\* two rankings of the source, with book 10 in both
ConcPages ==
    { Page(<<Anchor("book", Id10, <<"A", "a">>), Anchor("book", Id20, <<" ", "B", "b", " ">>)>>),
      Page(<<Anchor("book", Id30, <<"C", "c">>), Anchor("book", Id10, <<"A", "a">>)>>) }

\* the source changes its ranking
SourceChanges ==
    /\ served \in ConcPages
    /\ served' \in ConcPages \ {served}
    /\ UNCHANGED <<stateFile, run, hist>>

\* two invocations of main() that nothing keeps from overlapping: the steps of
\* both interleave in any order, and each runs once
InitConc ==
    /\ stateFile \in {FileAbsent, FileNoIds, FileWithIds(PyList(<<Id20>>)),
                      FileWithIds(PyList(<<Id10, Id20, Id30>>))}
    /\ served \in ConcPages
    /\ run = [p \in Procs |-> IdleRun]
    /\ hist = NoHistory

ConcNext ==
    \/ \E p \in Procs : ~Terminated(p) /\ Step(p)
    \/ SourceChanges

ConcSpec == InitConc /\ [][ConcNext]_vars

----------------------------------------------------------------------------
(* Positions of an invocation *)

\* load_seen_ids has returned
Loaded(p) ==
    \/ run[p].pc \in {"loaded", "first_save", "send", "save", "done"}
    \/ run[p].exit \in {"type_error", "send_raised"}

\* the diff was computed and the branch of main chosen
Decided(p) ==
    \/ run[p].pc \in {"first_save", "send", "save", "done"}
    \/ run[p].exit = "send_raised"

\* send_telegram was called and the call is over
SendOver(p) == run[p].sendCalls > 0

\* the index of x in a sequence without repetition that contains it
IndexIn(seq, x) == CHOOSE k \in 1..Len(seq) : seq[k] = x

----------------------------------------------------------------------------
(* Claims *)

\* C1: send_telegram never raises to main: whatever the delivery outcome
\* (credentials missing, non-2xx response, transport-level exception of the
\* HTTP POST), the call returns and the run goes on to the persist step.
C1_NotifierNeverRaises ==
    \A p \in Procs : SendOver(p) => run[p].pc \in {"save", "done"}

\* C2: every run whose fetch succeeded and whose parse gave a non-empty list
\* has executed save_seen_ids when it terminates.
C2_PersistBeforeTermination ==
    \A p \in Procs :
        (Terminated(p) /\ run[p].current # <<>>) => run[p].saves >= 1

\* C3: first-run suppression: in a run that found no state file and read an
\* override other than "1", send_telegram is never called (and no request
\* reaches the sink), the run takes the first-run branch, and when it ends
\* the state file exists and holds exactly the ids of the current list.
C3_FirstRunSuppression ==
    \A p \in Procs :
        (Decided(p) /\ run[p].startFile = FileAbsent /\ ~run[p].always_alert) =>
            /\ run[p].sendCalls = 0
            /\ run[p].posts = 0
            /\ run[p].pc \in {"first_save", "done"}
            /\ run[p].pc = "done" =>
                  /\ Exists(stateFile)
                  /\ stateFile.kind = "json" /\ stateFile.top = "object"
                  /\ stateFile.hasIds
                  /\ stateFile.ids.t = "list"
                  /\ stateFile.ids.list = IdsOf(run[p].current)
                  /\ run[p].current # <<>>

C3_Witness ==
    \E p \in Procs :
        /\ run[p].pc = "done"
        /\ run[p].startFile = FileAbsent
        /\ ~run[p].always_alert
        /\ Len(run[p].current) = 3
        /\ run[p].saves = 1
        /\ stateFile.ids.list = IdsOf(run[p].current)

\* the "ids" member two file contents hold is the same
SameIds(f, g) ==
    /\ f.kind = g.kind /\ f.top = g.top
    /\ f.hasIds = g.hasIds /\ f.ids = g.ids

\* C4: idempotence of re-run: when two consecutive runs both fetch the same
\* markup, the second computes an empty new-id list and leaves the persisted
\* ids as they were after the first.
C4_RerunIdempotent ==
    \A p \in Procs :
        (Terminated(p) /\ run[p].prevSame /\ run[p].fetchedServed) =>
            /\ run[p].new_ids = <<>>
            /\ SameIds(stateFile, run[p].startFile)

\* C5: diff correctness: for the current id sequence C and a loaded id
\* collection S, new_ids holds exactly the ids of C that are not in S, each
\* once, in the order of C; no id outside C appears in it.
C5_DiffCorrect ==
    \A p \in Procs :
        (Decided(p) /\ run[p].seen_ids.t \in {"list", "dict"}) =>
            LET C == IdsOf(run[p].current)
                N == run[p].new_ids
                S == Range(run[p].seen_ids.list)
            IN  /\ Range(N) = Range(C) \ S
                /\ \A i, j \in 1..Len(N) :
                      i < j => IndexIn(C, N[i]) < IndexIn(C, N[j])

C5_Witness ==
    \E p \in Procs :
        /\ Decided(p)
        /\ run[p].seen_ids = PyList(<<Id10, Id20, Id30>>)
        /\ IdsOf(run[p].current) = <<Id20, Id40, Id30>>
        /\ run[p].new_ids = <<Id40>>

\* C6: a notification built for a non-empty new-id list has one line per new
\* id, in rank order, numbered (two digits) with the id's 1-based position in
\* the full current list and titled with its title; seen [10,20,30] and
\* current [20,30,40] give the single line 03 for id 40.
C6_MessageLines ==
    \A p \in Procs :
        (run[p].msg # NoMessage /\ run[p].new_ids # <<>>) =>
            LET C == IdsOf(run[p].current)
                N == run[p].new_ids
                L == run[p].msg.lines
            IN  /\ Len(L) = Len(N)
                /\ \A k \in 1..Len(N) :
                      LET j == IndexIn(C, N[k])
                      IN  /\ L[k].num = <<j \div 10, j % 10>>
                          /\ L[k].title = run[p].current[j].title
                /\ (run[p].seen_ids = PyList(<<Id10, Id20, Id30>>)
                        /\ C = <<Id20, Id30, Id40>>) =>
                      L = << [num |-> <<0, 3>>, title |-> <<"D", "d">>] >>

C6_Witness ==
    \E p \in Procs :
        /\ run[p].pc = "send"
        /\ run[p].seen_ids = PyList(<<Id10, Id20, Id30>>)
        /\ IdsOf(run[p].current) = <<Id20, Id30, Id40>>
        /\ run[p].msg.lines = << [num |-> <<0, 3>>, title |-> <<"D", "d">>] >>

\* C7: fetch_html_with_retries makes at most 4 attempts; when it returns, it
\* returns the body of the attempt just made, after one warning per earlier
\* attempt, and attempts nothing more; when all 4 attempts failed the run is
\* aborted with 4 warnings and no markup.
C7_FetchAttempts ==
    \A p \in Procs :
        /\ run[p].attempt <= 4 /\ run[p].warnings <= 4
        /\ run[p].pc = "fetch" =>
              /\ run[p].warnings = run[p].attempt
              /\ run[p].attempt < 4
              /\ run[p].html = NoHtml
        /\ run[p].pc = "fetched" =>
              /\ run[p].attempt \in 1..4
              /\ run[p].warnings = run[p].attempt - 1
              /\ run[p].html = run[p].r.text
              /\ ~ENABLED FetchAttempt(p)
        /\ run[p].exit = "fetch_exhausted" =>
              /\ run[p].pc = "fatal"
              /\ run[p].attempt = 4 /\ run[p].warnings = 4
              /\ run[p].html = NoHtml /\ run[p].current = <<>>
              /\ run[p].saves = 0
              /\ ~ENABLED FetchAttempt(p)
        /\ (run[p].pc \notin {"idle", "fetch"} /\ run[p].exit # "fetch_exhausted") =>
              run[p].warnings <= 3

C7_Witness ==
    \E p \in Procs :
        /\ run[p].pc = "done"
        /\ run[p].warnings = 3

\* the responses the claim C8 says are retried
RetryClass(r) ==
    \/ r.exc
    \/ (r.status_code < 200 \/ r.status_code >= 300) /\ r.text.kind = "empty"
    \/ r.status_code \in {403, 429}
    \/ r.status_code >= 500

\* C8: an attempt whose response is non-2xx with an empty body, or has status
\* 403, 429 or >= 500, or that raised a transport exception, is retried: its
\* body is never returned as the fetched markup.
C8_RetryClassNeverReturned ==
    \A p \in Procs : run[p].pc = "fetched" => ~RetryClass(run[p].r)

\* the state contents the claim C9 calls absent or corrupt
AbsentOrCorrupt(f) ==
    \/ f.kind \in {"absent", "unreadable", "notjson"}
    \/ f.kind = "json" /\ f.top # "object"
    \/ f.kind = "json" /\ f.top = "object" /\ ~f.hasIds
    \/ f.kind = "json" /\ f.top = "object" /\ f.hasIds /\ f.ids.t # "list"

\* C9: load_seen_ids returns an empty collection whenever the state file is
\* absent or corrupt, and no such content makes load_seen_ids or the diff
\* step abort the run.
C9_CorruptStateLoadsEmpty ==
    \A p \in Procs :
        (Loaded(p) /\ AbsentOrCorrupt(run[p].startFile)) =>
            /\ run[p].seen_ids = PyList(<<>>)
            /\ run[p].exit # "type_error"

\* an existing state file that cannot be read or parsed as a JSON object
Malformed(f) ==
    \/ f.kind \in {"unreadable", "notjson"}
    \/ f.kind = "json" /\ f.top # "object"

\* C10: a run that finds a malformed state file makes the notification
\* decision, and persists the ids, of a run that finds no state file, for
\* the same current list and override.
C10_MalformedHandledAsAbsent ==
    \A p \in Procs :
        (Decided(p) /\ Malformed(run[p].startFile)) =>
            LET ids == IdsOf(run[p].current)
                seenAbsent == load_seen_ids(FileAbsent)
                branchAbsent == MainBranch(FirstRun(FileAbsent, seenAbsent),
                                           Diff(ids, seenAbsent), run[p].always_alert)
            IN  /\ (run[p].msg # NoMessage) <=> (branchAbsent = "send")
                /\ Terminated(p) => SameIds(stateFile, save_seen_ids(ids, run[p].current))

\* C10 as amended: a run that finds a malformed state file loads the same
\* empty seen ids and computes the same new ids (all current ids) as a run
\* that finds no state file, and when it completes it has persisted the
\* current ids; but it is not a first run: whatever the override, it hands
\* send_telegram a notification with one line per current id.
C10_MalformedIsNotFirstRun ==
    \A p \in Procs :
        (Decided(p) /\ Malformed(run[p].startFile)) =>
            LET ids == IdsOf(run[p].current)
            IN  /\ run[p].seen_ids = load_seen_ids(FileAbsent)
                /\ run[p].new_ids = ids
                /\ ~run[p].first_run
                /\ run[p].pc # "first_save"
                /\ run[p].msg # NoMessage
                /\ run[p].msg.intro = "new"
                /\ Len(run[p].msg.lines) = Len(ids)
                /\ run[p].pc \in {"save", "done"} => run[p].sendCalls = 1
                /\ run[p].pc = "done" =>
                      SameIds(stateFile, save_seen_ids(ids, run[p].current))

C10_Witness ==
    \E p \in Procs :
        /\ run[p].pc = "done"
        /\ run[p].startFile = FileNotJson
        /\ ~run[p].always_alert
        /\ run[p].sendCalls = 1
        /\ run[p].posts = 1
        /\ Len(run[p].msg.lines) = 2

\* C11: on a first run (no state file) with the override set, the
\* notification reports the first 5 entries of the current list, not the
\* list of new ids.
C11_FirstRunOverrideSendsSample ==
    \A p \in Procs :
        (Decided(p) /\ run[p].startFile = FileAbsent /\ run[p].always_alert) =>
            /\ run[p].msg # NoMessage
            /\ Len(run[p].msg.lines) = Min(5, Len(run[p].current))
            /\ \A k \in 1..Len(run[p].msg.lines) :
                  run[p].msg.lines[k].title = run[p].current[k].title

\* C11 as amended: on a first run with the override set every current id is
\* new, and the notification lists all of them (one line per entry of the
\* current list, numbered 1, 2, ...), not only the first 5.
C11_FirstRunOverrideListsAll ==
    \A p \in Procs :
        (Decided(p) /\ run[p].startFile = FileAbsent /\ run[p].always_alert) =>
            /\ run[p].pc # "first_save"
            /\ run[p].first_run
            /\ run[p].new_ids = IdsOf(run[p].current)
            /\ run[p].msg.intro = "new"
            /\ Len(run[p].msg.lines) = Len(run[p].current)
            /\ \A k \in 1..Len(run[p].current) :
                  /\ run[p].msg.lines[k].title = run[p].current[k].title
                  /\ run[p].msg.lines[k].num = <<k \div 10, k % 10>>

C11_Witness ==
    \E p \in Procs :
        /\ run[p].pc = "send"
        /\ run[p].startFile = FileAbsent
        /\ run[p].always_alert
        /\ Len(run[p].current) = 6
        /\ Len(run[p].msg.lines) = 6

\* the text without its leading and trailing blanks
Trimmed(t) ==
    LET inked == {i \in 1..Len(t) : t[i] # " "}
    IN  IF inked = {} THEN <<>>
        ELSE SubSeq(t, CHOOSE i \in inked : \A j \in inked : i <= j,
                       CHOOSE i \in inked : \A j \in inked : i >= j)

\* the anchors of a page that are ranking entries, by the words of C12
IsEntry(a) ==
    /\ a.path = "book" /\ a.num # <<>>
    /\ Trimmed(a.text) # <<>>
    /\ Len(Trimmed(a.text)) >= 2
    /\ lower(Trimmed(a.text)) # <<"r", "e", "a", "d">>
    /\ lower(Trimmed(a.text)) #
          <<"a", "d", "d", " ", "i", "n", " ", "l", "i", "b", "r", "a", "r", "y">>

\* the positions of the entries that are the first with their id
FirstEntries(as) ==
    {k \in 1..Len(as) :
        /\ IsEntry(as[k])
        /\ \A j \in 1..(k - 1) : IsEntry(as[j]) => as[j].num # as[k].num}

\* parse_titles has returned the list parsed from the pinned page
ParsedServed(p) ==
    /\ run[p].fetchedServed
    /\ \/ run[p].pc \in {"parsed", "loaded", "first_save", "send", "save", "done", "crashed"}
       \/ run[p].exit = "empty_parse"

\* C12: parse_titles returns the anchors that match /book/<digits> and pass
\* the title filter, without the later anchors of an id already taken, in
\* document order, cut to the first 50; the ids are pairwise distinct, entry
\* k has rank k, and 60 distinct matching anchors give exactly the first 50.
C12_ParseTitles ==
    \A p \in Procs :
        ParsedServed(p) =>
            LET as == served.anchors
                F == FirstEntries(as)
                cur == run[p].current
            IN  /\ Len(cur) = Min(50, Cardinality(F))
                /\ \A j \in 1..Len(cur) :
                      \E k \in F :
                          /\ Cardinality({i \in F : i <= k}) = j
                          /\ cur[j].id = as[k].num
                          /\ cur[j].title = Trimmed(as[k].text)
                /\ \A i, j \in 1..Len(cur) : i # j => cur[i].id # cur[j].id
                /\ \A j \in 1..Len(cur) : PosOf(cur, cur[j].id) = j
                /\ Len(as) = 60 =>
                      /\ Len(cur) = 50
                      /\ \A j \in 1..50 : cur[j].id = as[j].num

C12_Witness ==
    \E p \in Procs :
        /\ run[p].pc = "parsed"
        /\ served = RankingPage(60)
        /\ Len(run[p].current) = 50
        /\ run[p].current[50].id = <<5, 0>>

\* the run has read no credentials that are set: either send_telegram found
\* TELEGRAM_TOKEN or TELEGRAM_CHAT_ID absent, or it was not called
NoCredentials(p) == run[p].delivery \in {"none", "skipped"}

\* C13: when TELEGRAM_TOKEN or TELEGRAM_CHAT_ID is absent, a run whose fetch
\* and parse succeeded completes normally, persists the current ids and
\* makes no HTTP request to the notification sink, whatever the prior state
\* and the override.
C13_NoCredentialsRunCompletes ==
    \A p \in Procs :
        (NoCredentials(p) /\ run[p].current # <<>>) =>
            /\ run[p].posts = 0
            /\ Terminated(p) =>
                  /\ run[p].pc = "done"
                  /\ run[p].saves = 1
                  /\ SameIds(stateFile,
                             save_seen_ids(IdsOf(run[p].current), run[p].current))

\* the diff was computed and the state file not yet written by the run
DecidedNotSaved(p) ==
    \/ run[p].pc \in {"first_save", "send", "save"}
    \/ run[p].exit = "send_raised"

\* C14: after every run that was not aborted the state file holds exactly
\* the ids of that run's fetch, in rank order, and that run's entries, with
\* nothing of earlier snapshots; so an id that an earlier run persisted, that
\* dropped out of the persisted ids since and is fetched again is in new_ids.
C14_PersistedIsCurrentFetch ==
    \A p \in Procs :
        /\ run[p].pc = "done" =>
              /\ stateFile.kind = "json" /\ stateFile.top = "object"
              /\ stateFile.hasIds
              /\ stateFile.ids.t = "list"
              /\ Len(stateFile.ids.list) = Len(run[p].current)
              /\ \A k \in 1..Len(run[p].current) :
                    stateFile.ids.list[k] = run[p].current[k].id
              /\ stateFile.snapshot = run[p].current
        /\ DecidedNotSaved(p) =>
              \A x \in hist.dropped :
                  (\E k \in 1..Len(run[p].current) : run[p].current[k].id = x)
                      => \E j \in 1..Len(run[p].new_ids) : run[p].new_ids[j] = x

\* a run reports as new an id that was persisted, dropped out and is back
C14_Witness ==
    \E p \in Procs :
        /\ run[p].pc = "save"
        /\ run[p].sendCalls = 1
        /\ ~run[p].always_alert
        /\ Id10 \in hist.dropped
        /\ run[p].new_ids = <<Id10>>
        /\ Len(run[p].current) = 2

\* the run computed the diff and is not one suppressed as a first run
NotSuppressed(p) ==
    /\ Decided(p)
    /\ ~(run[p].startFile = FileAbsent /\ ~run[p].always_alert)

FatallyAborted(p) == run[p].pc = "fatal"

\* C16: a run aborted by the failure of all 4 fetch attempts or by an empty
\* parse leaves the state file as it was when the run started and calls
\* neither send_telegram nor save_seen_ids; the run started next finds the
\* state file the aborted run found.
C16_FatalAbortLeavesState ==
    /\ [](\A p \in Procs :
             FatallyAborted(p) =>
                 /\ run[p].exit \in {"fetch_exhausted", "empty_parse"}
                 /\ run[p].exit = "fetch_exhausted" => run[p].warnings = retries
                 /\ stateFile = run[p].startFile
                 /\ run[p].msg = NoMessage
                 /\ run[p].sendCalls = 0 /\ run[p].posts = 0
                 /\ run[p].saves = 0)
    /\ [][\A p \in Procs :
             (FatallyAborted(p) /\ run'[p].pc = "fetch") =>
                 /\ stateFile' = run[p].startFile
                 /\ run'[p].startFile = run[p].startFile]_vars

\* a run on a page without entries was aborted over a state file with ids
C16_Witness ==
    \E p \in Procs :
        /\ FatallyAborted(p)
        /\ run[p].exit = "empty_parse"
        /\ run[p].startFile = FileWithIds(PyList(<<Id10, Id20, Id30>>))
        /\ stateFile = run[p].startFile

\* C17: over runs made one after the other with the override unset, an id is
\* put in a message at most once as long as it stays in the fetches of the
\* runs that went past fetch and parse; in particular a later run does not
\* send again what a run sent without success.
C17_NotifiedOncePerStretch == hist.renotified = {}

\* the run handed a message with id x among its new ids to send_telegram
NotifiedNew(p, x) ==
    /\ run[p].sendCalls = 1
    /\ \E k \in 1..Len(run[p].new_ids) : run[p].new_ids[k] = x

\* C18: nothing locks the state file; a run reads it before its diff and
\* writes it as its last step, after send_telegram.  Of two invocations the
\* file holds the ids of the one that wrote last, and both send the same new
\* id only if each loaded the file before the other saved it: invocations
\* made one after the other never do.
C18_NoLockLastWriterWins ==
    /\ \A p \in Procs :
          /\ run[p].saves > 0 => run[p].pc = "done" /\ run[p].saves = 1
          /\ run[p].sendCalls > 0 => Loaded(p)
          /\ (hist.writer = p) =>
                /\ run[p].pc = "done"
                /\ stateFile.ids = PyList(IdsOf(run[p].current))
                /\ stateFile.snapshot = run[p].current
    /\ \A p \in Procs : \A q \in Procs \ {p} :
          (\E x \in Range(run[p].new_ids) : NotifiedNew(p, x) /\ NotifiedNew(q, x))
              => run[p].raced /\ run[q].raced

\* both invocations loaded before either saved, both sent id 10 as new, and
\* the file holds the ids of invocation 2, which wrote last, not those of 1
C18_Witness ==
    /\ run[1].pc = "done" /\ run[2].pc = "done"
    /\ run[1].raced /\ run[2].raced
    /\ NotifiedNew(1, Id10) /\ NotifiedNew(2, Id10)
    /\ ~run[1].always_alert /\ ~run[2].always_alert
    /\ run[1].delivery = "accepted" /\ run[2].delivery = "accepted"
    /\ hist.writer = 2
    /\ stateFile.ids = PyList(IdsOf(run[2].current))
    /\ IdsOf(run[1].current) # IdsOf(run[2].current)

====
